---- MODULE Spec2Model ----
(***************************************************************************)
(* OrchidRPC server: the protobuf transport adapter (handleAllHttp) and    *)
(* the two execution engines (class RPC, TypeBox variant and plain         *)
(* variant) it dispatches to; and OrchidRPC client: one call of            *)
(* OrchidRpcClient.procedure, protobuf variant and JSON text variant.      *)
(*                                                                         *)
(* Spec follows one request through the server; InterleavedSpec serves     *)
(* several requests at once; GlobalMiddlewareSpec adds useMiddleware;      *)
(* ClientSpec follows one client call; RoundTripSpec joins a client call   *)
(* to the server that answers it.                                          *)
(*                                                                         *)
(* JavaScript values are records [type, v]; strings that are compared by   *)
(* substring (header values) are sequences of segments; a protobuf body is *)
(* a sequence of wire fields.                                              *)
(***************************************************************************)
EXTENDS Integers, Sequences, FiniteSets, TLC

\* ------------------------------------------------------------------ bounds
\* Request slots of the server; Spec follows the first one, the others stay
\* unused.
NumReq == 2
\* Longest middleware list of a registered procedure
MaxMiddleware == 2
\* Most functions registered through useMiddleware
MaxGlobalMiddleware == 1

Reqs == 1..NumReq

\* ------------------------------------------------------- JavaScript values
Val(t, s) == [type |-> t, v |-> s]
Undefined == Val("undefined", "")
EmptyObject == Val("object", "")
EmptyString == Val("string", "")

\* typeof x
TypeOf(x) == x.type

\* ToBoolean(x): what `x || y`, `x && y` and `!x` test
Truthy(x) ==
  CASE x.type = "object" -> TRUE
    [] x.type = "function" -> TRUE
    [] x.type = "string" -> x.v # ""
    [] x.type = "number" -> x.v \notin {"0", "NaN"}
    [] x.type = "boolean" -> x.v = "true"
    [] OTHER -> FALSE

\* The JSON texts a client puts into the envelope's input field.
JsonName == "{\"name\":\"Ada\"}"
JsonEmpty == "{}"
JsonBroken == "{\"name\":"
InputTexts == {JsonName, JsonEmpty, JsonBroken}

\* JSON.parse(text): the value, or a SyntaxError
JSONParse(text) ==
  CASE text = JsonName -> [threw |-> FALSE, val |-> Val("object", "name=Ada")]
    [] text = JsonEmpty -> [threw |-> FALSE, val |-> EmptyObject]
    [] text = "5" -> [threw |-> FALSE, val |-> Val("number", "5")]
    [] text = "0" -> [threw |-> FALSE, val |-> Val("number", "0")]
    [] OTHER -> [threw |-> TRUE, val |-> Undefined]

\* JSON.stringify(x): a text, or undefined (for undefined and functions)
JSONStringify(x) ==
  CASE x.type = "object" /\ x.v = "name=Ada" -> [defined |-> TRUE, text |-> JsonName]
    [] x.type = "object" /\ x.v = "" -> [defined |-> TRUE, text |-> JsonEmpty]
    [] x.type = "object" -> [defined |-> TRUE, text |-> "{" \o x.v \o "}"]
    [] x.type = "number" -> [defined |-> TRUE, text |-> x.v]
    [] x.type = "boolean" -> [defined |-> TRUE, text |-> x.v]
    [] x.type = "string" -> [defined |-> TRUE, text |-> "\"" \o x.v \o "\""]
    [] x.type = "null" -> [defined |-> TRUE, text |-> "null"]
    [] OTHER -> [defined |-> FALSE, text |-> ""]

\* ------------------------------------------------------------ header values
ProtobufType == <<"application/x-protobuf">>
ContentTypes ==
  { <<>>,
    <<"application/json">>,
    <<"application/x-protobuf">>,
    <<"application/x-protobuf", "; charset=utf-8">> }
Methods == {"POST", "GET"}

\* String.prototype.includes
Includes(hay, needle) ==
  \E i \in 0..(Len(hay) - Len(needle)) :
    SubSeq(hay, i + 1, i + Len(needle)) = needle

\* req.method !== "POST"
MethodNotAllowedMut(method) == method \notin {"POST", "GET"}
MethodNotAllowed(method) == method # "POST"

\* !contentType.includes("application/x-protobuf"), contentType defaulting to ""
UnsupportedMediaTypeMut(header) == header = <<>>
UnsupportedMediaType(header) == ~Includes(header, ProtobufType)

\* ---------------------------------------------------------- protobuf codec
\* A wire field: tag 1 (procedure), tag 2 (input), or bytes no decoder accepts.
F1(s) == [tag |-> 1, s |-> s]
F2(s) == [tag |-> 2, s |-> s]
Malformed == [tag |-> 0, s |-> ""]

Bodies ==
  { <<>>,
    <<F1("greet"), F2(JsonName)>>,
    <<F1("greet"), F2(JsonEmpty)>>,
    <<F1("greet"), F2(JsonBroken)>>,
    <<F1("greet"), F2("0")>>,
    <<F1("greet")>>,
    <<F2(JsonName)>>,
    <<F1("Greet"), F2(JsonName)>>,
    <<F1("missing"), F2(JsonEmpty)>>,
    <<F1("toString"), F2(JsonName)>>,
    <<F1("greet"), Malformed>> }

\* Buffer.concat(chunks)
ConcatLastChunk(cs) == IF cs = <<>> THEN <<>> ELSE cs[Len(cs)]
RECURSIVE Concat(_)
Concat(cs) == IF cs = <<>> THEN <<>> ELSE Head(cs) \o Concat(Tail(cs))

\* RpcRequest.decode + toObject({defaults: true}): a later field overwrites an
\* earlier one, an absent string field reads as "".
RECURSIVE DecodeFields(_, _)
DecodeFields(buf, acc) ==
  IF buf = <<>> THEN acc
  ELSE LET f == Head(buf) IN
    CASE f.tag = 1 -> DecodeFields(Tail(buf), [acc EXCEPT !.procedure = f.s])
      [] f.tag = 2 -> DecodeFields(Tail(buf), [acc EXCEPT !.input = f.s])
      [] OTHER -> [acc EXCEPT !.threw = TRUE]

RpcRequestDecode(buf) ==
  DecodeFields(buf, [threw |-> FALSE, procedure |-> "", input |-> ""])

\* deserializeProtobuf(buffer): {procedure, input} with a non-empty input parsed
\* as JSON, or "Protobuf parse error: ..."
deserializeProtobufKeepRawInput(buf) ==
  LET d == RpcRequestDecode(buf) IN
  IF d.threw
  THEN [threw |-> TRUE, message |-> "Protobuf parse error: index out of range",
        procedure |-> Undefined, input |-> Undefined]
  ELSE [threw |-> FALSE, message |-> "",
        procedure |-> Val("string", d.procedure),
        input |-> IF d.input # "" /\ ~JSONParse(d.input).threw
                  THEN JSONParse(d.input).val ELSE Val("string", d.input)]
deserializeProtobuf(buf) ==
  LET d == RpcRequestDecode(buf) IN
  IF d.threw
  THEN [threw |-> TRUE, message |-> "Protobuf parse error: index out of range",
        procedure |-> Undefined, input |-> Undefined]
  ELSE IF d.input # ""
       THEN LET p == JSONParse(d.input) IN
            IF p.threw
            THEN [threw |-> TRUE, message |-> "Protobuf parse error: Unexpected end of JSON input",
                  procedure |-> Undefined, input |-> Undefined]
            ELSE [threw |-> FALSE, message |-> "",
                  procedure |-> Val("string", d.procedure), input |-> p.val]
       ELSE [threw |-> FALSE, message |-> "",
             procedure |-> Val("string", d.procedure), input |-> EmptyString]

\* !body || typeof body.procedure !== "string": the decoded object is never
\* falsy, and its procedure is a string by the schema's default.
InvalidProcedureName(body) == TypeOf(body.procedure) # "string"

\* body.input || {}
InputOrEmpty(input) == IF Truthy(input) THEN input ELSE EmptyObject

\* -------------------------------------------------------------- procedures
ValidatorKinds == {"none", "schema", "normalize"}
MiddlewareKinds == {"next", "wrap", "return", "throw"}
\* "greet" returns a greeting, "void" returns nothing, "throw" throws an Error
HandlerKinds == {"greet", "void", "throw"}

RECURSIVE SeqsUpTo(_, _)
SeqsUpTo(S, n) ==
  IF n = 0 THEN {<<>>}
  ELSE LET shorter == SeqsUpTo(S, n - 1) IN
       shorter \cup {Append(s, x) : s \in {t \in shorter : Len(t) = n - 1}, x \in S}

\* interface Procedure: validateInput?, handler, middleware
Procedures ==
  [validateInput : ValidatorKinds,
   hasMiddleware : {TRUE},
   middleware : SeqsUpTo(MiddlewareKinds, MaxMiddleware),
   handler : HandlerKinds]

\* A member every object inherits from Object.prototype (a function): it has
\* neither validateInput nor middleware nor handler.
InheritedMember ==
  [validateInput |-> "none", hasMiddleware |-> FALSE, middleware |-> <<>>,
   handler |-> "none"]
ObjectPrototypeKeys == {"toString", "constructor", "valueOf", "hasOwnProperty"}

\* rpc.router(procedures): the record itself
router(procedures) == procedures

\* appRouter[name] followed by !procedure
Lookup(r, name) ==
  IF name \in DOMAIN r THEN [found |-> TRUE, procedure |-> r[name]]
  ELSE IF name \in ObjectPrototypeKeys THEN [found |-> TRUE, procedure |-> InheritedMember]
  ELSE [found |-> FALSE, procedure |-> InheritedMember]

\* What the validators of the examples decide: the TypeBox schema
\* T.Object({name: T.String()}) and the function that throws "Invalid name".
ValidatorAccepts(kind, raw) ==
  kind = "none" \/ (raw.type = "object" /\ raw.v = "name=Ada")

\* The validator's return value: Check-based validators return the input
\* itself, a validator function returns what it likes.
ValidatorOutput(kind, raw) ==
  IF kind = "normalize" THEN Val("object", "name=Ada,normalized=true") ELSE raw

ValidatorMessage(kind) ==
  IF kind = "schema" THEN "Validation failed for schema: {\"type\":\"object\"}"
  ELSE "Invalid name"

\* The value the handler of kind `kind` returns for opts
HandlerReturn(kind, input) ==
  IF kind = "void" THEN Undefined
  ELSE IF kind = "five" THEN Val("number", "5")
  ELSE IF kind = "digits" THEN Val("string", "5")
  ELSE IF input.type = "object" /\ input.v # ""
  THEN Val("string", "Hello, Ada!")
  ELSE Val("string", "Hello, undefined!")

\* The value middleware i returns when it does not return next()'s value
MiddlewareOwn(i) == Val("string", "middleware#" \o ToString(i))

\* --------------------------------------------------------------- contexts
Ctx0 == [k \in {} |-> ""]
GlobalContexts ==
  { [k \in {"isAuth"} |-> "true"],
    [k \in {"isAuth", "request"} |-> IF k = "isAuth" THEN "true" ELSE "configured"] }

ReqHandle(r) == "req#" \o ToString(r)
ResHandle(r) == "res#" \o ToString(r)

\* The context function a deployment hands to rpc.procedure(contextFn)
ContextFns == {"none", "user"}
ContextFnResult(fn, r) ==
  IF fn = "user"
  THEN [k \in {"user", "isAuth"} |-> IF k = "user" THEN ReqHandle(r) ELSE "false"]
  ELSE Ctx0

\* { ...a, ...b }
SpreadMut(a, b) ==
  [k \in DOMAIN a \cup DOMAIN b |-> IF k \in DOMAIN a THEN a[k] ELSE b[k]]
Spread(a, b) ==
  [k \in DOMAIN a \cup DOMAIN b |-> IF k \in DOMAIN b THEN b[k] ELSE a[k]]

\* ------------------------------------------------------------ ServerResponse
Body(kind, result, error, details) ==
  [kind |-> kind, result |-> result, error |-> error, details |-> details]
NoBody == Body("none", "", "", "")
\* RpcResponse.encode(RpcResponse.create({result, error})).finish()
Envelope(result, error) == Body("protobuf", result, error, "")

FreshResponse ==
  [statusCode |-> 200, contentType |-> "", ended |-> FALSE, endedBy |-> "",
   sent |-> [status |-> 0, contentType |-> "", body |-> NoBody]]

\* res.end(body): the first call sends status, headers and body; a later one
\* sends nothing.
ResEnd(rs, body, who) ==
  IF rs.ended THEN rs
  ELSE [rs EXCEPT !.ended = TRUE, !.endedBy = who,
                  !.sent = [status |-> rs.statusCode,
                            contentType |-> rs.contentType, body |-> body]]

\* res.statusCode = code; res.setHeader("Content-Type", type); res.end(body).
\* setHeader throws ERR_HTTP_HEADERS_SENT once the response was ended.
WriteResponse(rs, code, type, body, who) ==
  LET a == [rs EXCEPT !.statusCode = code] IN
  IF a.ended THEN [res |-> a, threw |-> TRUE]
  ELSE [res |-> ResEnd([a EXCEPT !.contentType = type], body, who), threw |-> FALSE]

HeadersSentMessage == "Cannot set headers after they are sent to the client"

\* RPC.sendErrorResponse (TypeBox engine)
sendErrorResponse(rs, code, message, details) ==
  WriteResponse(rs, code, "application/json", Body("json", "", message, details),
                "engine").res

\* The catch block of the end callback: 500 and the error's message
AdapterCatchGenericMessage(rs, message) ==
  LET w == WriteResponse(rs, 500, "application/x-protobuf",
                         Envelope("", "Internal Server Error"), "adapter") IN
  [res |-> w.res, rejected |-> IF w.threw THEN HeadersSentMessage ELSE ""]
AdapterCatchRethrow(rs, message) ==
  LET w == WriteResponse(rs, 500, "application/x-protobuf", Envelope("", message),
                         "adapter") IN
  [res |-> w.res, rejected |-> message]
AdapterCatch(rs, message) ==
  LET w == WriteResponse(rs, 500, "application/x-protobuf", Envelope("", message),
                         "adapter") IN
  [res |-> w.res, rejected |-> IF w.threw THEN HeadersSentMessage ELSE ""]

\* typeof result === "string" ? result : JSON.stringify(result); an undefined
\* result leaves the field unset.
ResultText(result) ==
  IF TypeOf(result) = "string" THEN result.v
  ELSE IF JSONStringify(result).defined THEN JSONStringify(result).text ELSE ""

\* The end callback after `await rpc.execute(...)`
AdapterRespondAlways200(rs, outcome) ==
  LET w == WriteResponse(rs, 200, "application/x-protobuf",
                         IF outcome.kind = "return"
                         THEN Envelope(ResultText(outcome.val), "")
                         ELSE Envelope("", outcome.msg), "adapter") IN
  IF w.threw THEN AdapterCatch(w.res, HeadersSentMessage)
  ELSE [res |-> w.res, rejected |-> ""]
AdapterRespond(rs, outcome) ==
  IF outcome.kind = "return"
  THEN LET w == WriteResponse(rs, 200, "application/x-protobuf",
                              Envelope(ResultText(outcome.val), ""), "adapter") IN
       IF w.threw THEN AdapterCatch(w.res, HeadersSentMessage)
       ELSE [res |-> w.res, rejected |-> ""]
  ELSE AdapterCatch(rs, outcome.msg)

\* ------------------------------------------------------------------- state
VARIABLES
  engine,          \* which class RPC the deployment runs: "typebox" or "plain"
  globalContext,   \* new RPC(globalContext)
  globalMiddleware, \* this.middleware: what useMiddleware has registered
  contextFn,       \* the argument of rpc.procedure(contextFn) ("typebox" only)
  appRouter,       \* rpc.router({...})
  pc,              \* per request: where its handling stands
  req,             \* per request: method, content-type header, body on the wire
  wire,            \* per request: body fields not yet delivered as data events
  chunks,          \* per request: const chunks: Buffer[]
  steps,           \* per request: the checks the adapter has evaluated, in order
  res,             \* per request: the ServerResponse
  call,            \* per request: the locals of rpc.execute
  rejected         \* per request: the message of the error the end callback's
                   \* promise rejected with, "" while it has not rejected

\* One call of OrchidRpcClient.procedure
VARIABLES
  client,          \* the constructor's arguments: variant, hooks, options.timeout
  cpc,             \* where the call stands: "absent", "idle", "fetching", "settled"
  sent,            \* the arguments of the call and the body handed to fetch
  timer,           \* the setTimeout of the call: "none", "armed", "cleared", "fired"
  aborted,         \* controller.signal.aborted
  reply,           \* how the fetch ended: a response, a network error, an abort
  hooks,           \* the hooks invoked so far, in order
  settled          \* what the promise procedure returned settled with

serverVars ==
  <<engine, globalContext, globalMiddleware, contextFn, appRouter,
    pc, req, wire, chunks, steps, res, call, rejected>>
clientVars == <<client, cpc, sent, timer, aborted, reply, hooks, settled>>
vars == <<serverVars, clientVars>>

Engines == {"typebox", "plain"}

Outcome(kind, val, msg) == [kind |-> kind, val |-> val, msg |-> msg]
Pending == Outcome("none", Undefined, "")

Event(ev, i, input, ctx, ret) ==
  [ev |-> ev, i |-> i, input |-> input, ctx |-> ctx, ret |-> ret]

NoCall ==
  [procedure |-> InheritedMember, raw |-> Undefined, input |-> Undefined,
   context |-> Ctx0, contextObject |-> "none", derived |-> Ctx0, index |-> 0,
   stack |-> <<>>,
   log |-> <<>>, contextFnCalls |-> 0, outcome |-> Pending]

NoRequest == [method |-> "", contentType |-> <<>>, body |-> <<>>]

\* --------------------------------------------------- client configuration
\* A hook is not configured, returns, or throws.
HookKinds == {"none", "returns", "throws"}
\* The protobuf client of packages/client and the JSON text client
ClientVariants == {"protobuf", "text"}
\* options.timeout: not given, 0, or a number of milliseconds
Timeouts == {Undefined, Val("number", "0"), Val("number", "1000")}

\* Both variants accept options.timeout; only the protobuf variant reads it.
Clients ==
  [variant : ClientVariants, onRequestInitialized : HookKinds,
   onSuccess : HookKinds, onError : HookKinds, timeout : Timeouts]

NoClient ==
  [variant |-> "protobuf", onRequestInitialized |-> "none", onSuccess |-> "none",
   onError |-> "none", timeout |-> Undefined]
NoSent == [name |-> Undefined, input |-> Undefined, fetched |-> FALSE, body |-> <<>>]
NoReply == [kind |-> "none", status |-> 0, contentType |-> <<>>, body |-> NoBody]
Unsettled == [kind |-> "pending", val |-> Undefined, msg |-> ""]

\* No call has been made.
ClientFresh ==
  /\ sent = NoSent
  /\ timer = "none"
  /\ aborted = FALSE
  /\ reply = NoReply
  /\ hooks = <<>>
  /\ settled = Unsettled

\* The state after construction: one engine, one router with the procedure
\* "greet", no request received yet.
InitDeployment ==
  /\ engine \in Engines
  /\ globalMiddleware = <<>>
  /\ globalContext \in GlobalContexts
  /\ contextFn \in IF engine = "typebox" THEN ContextFns ELSE {"none"}
  /\ \E p \in Procedures : appRouter = router([n \in {"greet"} |-> p])

Init ==
  /\ InitDeployment
  /\ pc = [r \in Reqs |-> IF r = 1 THEN "idle" ELSE "absent"]
  /\ req = [r \in Reqs |-> NoRequest]
  /\ wire = [r \in Reqs |-> <<>>]
  /\ chunks = [r \in Reqs |-> <<>>]
  /\ steps = [r \in Reqs |-> <<>>]
  /\ res = [r \in Reqs |-> FreshResponse]
  /\ call = [r \in Reqs |-> NoCall]
  /\ rejected = [r \in Reqs |-> ""]
  /\ client = NoClient
  /\ cpc = "absent"
  /\ ClientFresh

\* ------------------------------------------------------------ the engines
\* procedure.validateInput ? procedure.validateInput(input) : input
ExecuteValidateIgnoreFailure(procedure, raw) ==
  [ok |-> TRUE, val |-> raw, msg |-> ""]
ExecuteValidateDropOutput(procedure, raw) ==
  IF procedure.validateInput = "none" \/ ValidatorAccepts(procedure.validateInput, raw)
  THEN [ok |-> TRUE, val |-> raw, msg |-> ""]
  ELSE [ok |-> FALSE, val |-> Undefined, msg |-> ValidatorMessage(procedure.validateInput)]
ExecuteValidate(procedure, raw) ==
  IF procedure.validateInput = "none"
  THEN [ok |-> TRUE, val |-> raw, msg |-> ""]
  ELSE IF ValidatorAccepts(procedure.validateInput, raw)
       THEN [ok |-> TRUE, val |-> ValidatorOutput(procedure.validateInput, raw), msg |-> ""]
       ELSE [ok |-> FALSE, val |-> Undefined, msg |-> ValidatorMessage(procedure.validateInput)]

\* The per-call mapping the engine merges on top of the global context:
\* the TypeBox engine passes () => this.globalContext to mergeContexts, the
\* plain engine spreads {request, response}.
DerivedContext(r) ==
  IF engine = "typebox" THEN globalContext
  ELSE [k \in {"request", "response"} |->
          IF k = "request" THEN ReqHandle(r) ELSE ResHandle(r)]

\* mergeContexts: { ...this.globalContext, ...requestContext }
\* the spread builds a new object for every call
mergeContextsIntoGlobal(global, requestContext) ==
  [object |-> "global", value |-> Spread(global, requestContext)]
mergeContexts(global, requestContext) ==
  [object |-> "fresh", value |-> Spread(global, requestContext)]

\* rpc.execute up to its first await: validation, context, cursor at 0.
ExecuteStart(r, procedure, raw, rs) ==
  LET v == ExecuteValidate(procedure, raw)
      base == [NoCall EXCEPT
                 !.procedure = procedure, !.raw = raw,
                 !.log = IF procedure.validateInput # "none"
                         THEN <<Event("validate", -1, raw, Ctx0, v.val)>> ELSE <<>>]
  IN
  IF ~v.ok
  THEN IF engine = "typebox"
       THEN [call |-> [base EXCEPT !.outcome = Outcome("return", Undefined, "")],
             res |-> sendErrorResponse(rs, 400, "Invalid input", v.msg),
             pc |-> "return"]
       ELSE [call |-> [base EXCEPT !.outcome = Outcome("throw", Undefined, v.msg)],
             res |-> rs, pc |-> "return"]
  ELSE LET derived == DerivedContext(r)
           ctx == mergeContexts(globalContext, derived)
       IN [call |-> [base EXCEPT
                       !.input = v.val, !.derived = derived, !.context = ctx.value,
                       !.contextObject = ctx.object,
                       !.index = 0,
                       !.log = Append(@, Event("merge", -1, v.val, ctx.value, Undefined))],
           res |-> rs, pc |-> "next"]

\* The cursor after next() took middleware[index++]
AdvanceMut(index) == index + 2
Advance(index) == index + 1

\* The list next() walks before it calls the handler: procedure.middleware
ChainWithGlobal(procedure) == globalMiddleware \o procedure.middleware
Chain(procedure) == procedure.middleware

\* A middleware of kind "set" stores the caller's name in the context it was
\* handed (opts.context.caller = opts.input.name) and returns next().
Stored(c) == [k \in {"caller"} |-> c.input.v]
SetsContext(c) ==
  /\ c.procedure.hasMiddleware
  /\ c.index < Len(Chain(c.procedure))
  /\ Chain(c.procedure)[c.index + 1] = "set"
\* The global context object after next() ran: written to only when it is the
\* very object the middleware was handed.
GlobalAfter(c) ==
  IF SetsContext(c) /\ c.contextObject = "global"
  THEN Spread(globalContext, Stored(c)) ELSE globalContext

\* One call of next(): the middleware at the cursor, or the handler.
NextStep(c) ==
  IF ~c.procedure.hasMiddleware
  THEN [call |-> [c EXCEPT !.outcome =
                    Outcome("throw", Undefined,
                            "Cannot read properties of undefined (reading 'length')")],
        pc |-> "return"]
  ELSE IF c.index < Len(Chain(c.procedure))
  THEN LET i == c.index
           kind == Chain(c.procedure)[i + 1]
           own == IF kind \in {"return", "wrap"} THEN MiddlewareOwn(i) ELSE Undefined
           entered == [c EXCEPT !.index = Advance(i),
                                !.log = Append(@, Event("middleware", i, c.input, c.context, own))]
       IN CASE kind \in {"next", "wrap"} ->
                 [call |-> [entered EXCEPT !.stack = Append(@, i)], pc |-> "next"]
            [] kind = "set" ->
                 [call |-> [entered EXCEPT !.stack = Append(@, i),
                                           !.context = Spread(@, Stored(c))],
                  pc |-> "next"]
            [] kind = "return" ->
                 [call |-> [entered EXCEPT !.outcome = Outcome("return", own, "")],
                  pc |-> "return"]
            [] OTHER ->
                 [call |-> [entered EXCEPT !.outcome =
                              Outcome("throw", Undefined, "middleware failed")],
                  pc |-> "return"]
  ELSE LET ret == IF c.procedure.handler = "throw" THEN Undefined
                  ELSE HandlerReturn(c.procedure.handler, c.input)
           entered == [c EXCEPT !.log = Append(@, Event("handler", -1, c.input, c.context, ret))]
       IN IF c.procedure.handler = "throw"
          THEN [call |-> [entered EXCEPT !.outcome =
                            Outcome("throw", Undefined, "handler failed")],
                pc |-> "return"]
          ELSE [call |-> [entered EXCEPT !.outcome = Outcome("return", ret, "")],
                pc |-> "return"]

\* The value or exception next() produced reaches the middleware that awaits
\* it: `return next()` forwards it, `await next(); return own` replaces a value.
ReturnStepMut(c) ==
  LET i == c.stack[Len(c.stack)]
  IN [c EXCEPT !.stack = SubSeq(@, 1, Len(@) - 1),
               !.outcome = IF @.kind = "return"
                           THEN Outcome("return", MiddlewareOwn(i), "")
                           ELSE @]
ReturnStep(c) ==
  LET i == c.stack[Len(c.stack)]
      kind == Chain(c.procedure)[i + 1]
  IN [c EXCEPT !.stack = SubSeq(@, 1, Len(@) - 1),
               !.outcome = IF kind = "wrap" /\ @.kind = "return"
                           THEN Outcome("return", MiddlewareOwn(i), "")
                           ELSE @]

\* The TypeBox engine's catch around `await next()`: 500, then rethrow.
EngineCatch(rs, outcome) ==
  IF engine = "typebox" /\ outcome.kind = "throw"
  THEN sendErrorResponse(rs, 500, "Internal server error", outcome.msg)
  ELSE rs

\* ------------------------------------------------------------ the adapter
\* The end callback: decode, name check, lookup, and the synchronous start of
\* rpc.execute.
EndCallback(r) ==
  LET buffer == Concat(chunks[r])
      body == deserializeProtobuf(buffer)
      s1 == Append(steps[r], "decode")
      s2 == Append(s1, "name")
      s3 == Append(s2, "lookup")
      s4 == Append(s3, "execute")
  IN
  IF body.threw
  THEN LET w == AdapterCatch(res[r], body.message) IN
       [steps |-> s1, res |-> w.res, rejected |-> w.rejected, call |-> call[r], pc |-> "done"]
  ELSE IF InvalidProcedureName(body)
  THEN [steps |-> s2,
        res |-> WriteResponse(res[r], 400, "application/x-protobuf",
                  Envelope("", "Bad Request: Missing or invalid procedure name"),
                  "adapter").res,
        rejected |-> "", call |-> call[r], pc |-> "done"]
  ELSE LET found == Lookup(appRouter, body.procedure.v) IN
  IF ~found.found
  THEN [steps |-> s3,
        res |-> WriteResponse(res[r], 404, "application/x-protobuf",
                  Envelope("", "Not Found: Procedure not found"), "adapter").res,
        rejected |-> "", call |-> call[r], pc |-> "done"]
  ELSE LET e == ExecuteStart(r, found.procedure, InputOrEmpty(body.input), res[r]) IN
       [steps |-> s4, res |-> e.res, rejected |-> "", call |-> e.call, pc |-> e.pc]

\* The synchronous part of the request handler: method check, content-type
\* check, registration of the data and end listeners.
ReceiveRequest(r, method, header, body) ==
  /\ pc[r] = "idle"
  /\ req' = [req EXCEPT ![r] = [method |-> method, contentType |-> header, body |-> body]]
  /\ IF MethodNotAllowed(method)
     THEN /\ steps' = [steps EXCEPT ![r] = <<"method">>]
          /\ res' = [res EXCEPT ![r] =
                       ResEnd([@ EXCEPT !.statusCode = 405],
                              Body("text", "Method Not Allowed", "", ""), "adapter")]
          /\ pc' = [pc EXCEPT ![r] = "done"]
          /\ wire' = wire
     ELSE IF UnsupportedMediaType(header)
     THEN /\ steps' = [steps EXCEPT ![r] = <<"method", "contentType">>]
          /\ res' = [res EXCEPT ![r] =
                       WriteResponse(@, 415, "application/x-protobuf",
                         Envelope("", "Unsupported Media Type: Expected application/x-protobuf"),
                         "adapter").res]
          /\ pc' = [pc EXCEPT ![r] = "done"]
          /\ wire' = wire
     ELSE /\ steps' = [steps EXCEPT ![r] = <<"method", "contentType", "body">>]
          /\ res' = res
          /\ pc' = [pc EXCEPT ![r] = "body"]
          /\ wire' = [wire EXCEPT ![r] = body]
  /\ UNCHANGED <<engine, globalMiddleware, globalContext, contextFn, appRouter, chunks, call, rejected>>
  /\ UNCHANGED clientVars

\* A request arrives: any method, any content type, any body.
Receive(r) ==
  \E method \in Methods, header \in ContentTypes, body \in Bodies :
    ReceiveRequest(r, method, header, body)

\* req.on("data", chunk => chunks.push(chunk)): the next bytes of the body,
\* split wherever the transport splits them.
Data(r) ==
  /\ pc[r] = "body"
  /\ wire[r] # <<>>
  /\ \E k \in 1..Len(wire[r]) :
       /\ chunks' = [chunks EXCEPT ![r] = Append(@, SubSeq(wire[r], 1, k))]
       /\ wire' = [wire EXCEPT ![r] = SubSeq(@, k + 1, Len(@))]
  /\ UNCHANGED <<engine, globalMiddleware, globalContext, contextFn, appRouter, pc, req, steps, res, call, rejected>>
  /\ UNCHANGED clientVars

\* req.on("end", ...): fires once the whole body was delivered.
End(r) ==
  /\ pc[r] = "body"
  /\ wire[r] = <<>>
  /\ LET e == EndCallback(r) IN
       /\ steps' = [steps EXCEPT ![r] = e.steps]
       /\ res' = [res EXCEPT ![r] = e.res]
       /\ rejected' = [rejected EXCEPT ![r] = e.rejected]
       /\ call' = [call EXCEPT ![r] = e.call]
       /\ pc' = [pc EXCEPT ![r] = e.pc]
  /\ UNCHANGED <<engine, globalMiddleware, globalContext, contextFn, appRouter, req, wire, chunks>>
  /\ UNCHANGED clientVars

\* next() runs: a middleware or the handler is invoked.
CallNext(r) ==
  /\ pc[r] = "next"
  /\ LET n == NextStep(call[r]) IN
       /\ call' = [call EXCEPT ![r] = n.call]
       /\ pc' = [pc EXCEPT ![r] = n.pc]
  /\ globalContext' = GlobalAfter(call[r])
  /\ UNCHANGED <<engine, globalMiddleware, contextFn, appRouter, req, wire, chunks, steps, res, rejected>>
  /\ UNCHANGED clientVars

\* A middleware's awaited next() settles.
Return(r) ==
  /\ pc[r] = "return"
  /\ call[r].stack # <<>>
  /\ call' = [call EXCEPT ![r] = ReturnStep(@)]
  /\ UNCHANGED <<engine, globalMiddleware, globalContext, contextFn, appRouter, pc, req, wire, chunks, steps, res, rejected>>
  /\ UNCHANGED clientVars

\* execute settles (the TypeBox engine's catch runs first), and the end
\* callback continues after its await: it writes the response.
Settle(r) ==
  /\ pc[r] = "return"
  /\ call[r].stack = <<>>
  /\ LET w == AdapterRespond(EngineCatch(res[r], call[r].outcome), call[r].outcome) IN
       /\ res' = [res EXCEPT ![r] = w.res]
       /\ rejected' = [rejected EXCEPT ![r] = w.rejected]
  /\ pc' = [pc EXCEPT ![r] = "done"]
  /\ UNCHANGED <<engine, globalMiddleware, globalContext, contextFn, appRouter, req, wire, chunks, steps, call>>
  /\ UNCHANGED clientVars

Next ==
  \E r \in Reqs :
    \/ Receive(r)
    \/ Data(r)
    \/ End(r)
    \/ CallNext(r)
    \/ Return(r)
    \/ Settle(r)

Spec == Init /\ [][Next]_vars

\* ------------------------------------------------------ global middleware
\* rpc.useMiddleware(fn) of the plain engine: this.middleware.push(fn)
UseMiddleware ==
  /\ engine = "plain"
  /\ Len(globalMiddleware) < MaxGlobalMiddleware
  /\ \E kind \in {"return", "throw"} :
       globalMiddleware' = Append(globalMiddleware, kind)
  /\ UNCHANGED <<engine, globalContext, contextFn, appRouter,
                 pc, req, wire, chunks, steps, res, call, rejected>>
  /\ UNCHANGED clientVars

\* A plain engine whose procedure "greet" has its own middleware; one
\* request is past the method and content-type checks; useMiddleware may be
\* called at any moment.
GlobalMiddlewareProcedures ==
  [validateInput : {"none"},
   hasMiddleware : {TRUE},
   middleware : {<<>>, <<"next">>, <<"wrap">>, <<"next", "next">>},
   handler : {"greet", "throw"}]

GlobalMiddlewareInit ==
  /\ engine = "plain"
  /\ globalMiddleware = <<>>
  /\ globalContext \in GlobalContexts
  /\ contextFn = "none"
  /\ \E p \in GlobalMiddlewareProcedures : appRouter = router([n \in {"greet"} |-> p])
  /\ pc = [r \in Reqs |-> IF r = 1 THEN "body" ELSE "absent"]
  /\ req = [r \in Reqs |->
              IF r = 1 THEN [method |-> "POST", contentType |-> ProtobufType,
                             body |-> <<F1("greet"), F2(JsonName)>>]
              ELSE NoRequest]
  /\ wire = [r \in Reqs |-> IF r = 1 THEN <<F1("greet"), F2(JsonName)>> ELSE <<>>]
  /\ chunks = [r \in Reqs |-> <<>>]
  /\ steps = [r \in Reqs |-> IF r = 1 THEN <<"method", "contentType", "body">> ELSE <<>>]
  /\ res = [r \in Reqs |-> FreshResponse]
  /\ call = [r \in Reqs |-> NoCall]
  /\ rejected = [r \in Reqs |-> ""]
  /\ client = NoClient
  /\ cpc = "absent"
  /\ ClientFresh

GlobalMiddlewareNext ==
  \/ UseMiddleware
  \/ Data(1)
  \/ End(1)
  \/ CallNext(1)
  \/ Return(1)
  \/ Settle(1)

GlobalMiddlewareSpec == GlobalMiddlewareInit /\ [][GlobalMiddlewareNext]_vars

\* ------------------------------------------------------ interleaved calls
\* Every request slot holds a request the adapter has accepted (POST,
\* application/x-protobuf) and whose body is about to arrive; the calls differ
\* in their input. The procedure's middleware stores into the context.
InterleavedProcedures ==
  [validateInput : {"none"},
   hasMiddleware : {TRUE},
   middleware : {<<"set">>, <<"set", "next">>, <<"wrap", "set">>},
   handler : {"greet"}]

InterleavedBody(r) ==
  IF r % 2 = 1 THEN <<F1("greet"), F2(JsonName)>> ELSE <<F1("greet"), F2(JsonEmpty)>>

InterleavedInit ==
  /\ engine \in Engines
  /\ globalMiddleware = <<>>
  /\ globalContext \in GlobalContexts
  /\ contextFn = "none"
  /\ \E p \in InterleavedProcedures : appRouter = router([n \in {"greet"} |-> p])
  /\ pc = [r \in Reqs |-> "body"]
  /\ req = [r \in Reqs |-> [method |-> "POST", contentType |-> ProtobufType,
                             body |-> InterleavedBody(r)]]
  /\ wire = [r \in Reqs |-> InterleavedBody(r)]
  /\ chunks = [r \in Reqs |-> <<>>]
  /\ steps = [r \in Reqs |-> <<"method", "contentType", "body">>]
  /\ res = [r \in Reqs |-> FreshResponse]
  /\ call = [r \in Reqs |-> NoCall]
  /\ rejected = [r \in Reqs |-> ""]
  /\ client = NoClient
  /\ cpc = "absent"
  /\ ClientFresh

InterleavedNext ==
  \E r \in Reqs :
    \/ Data(r)
    \/ End(r)
    \/ CallNext(r)
    \/ Return(r)
    \/ Settle(r)

InterleavedSpec == InterleavedInit /\ [][InterleavedNext]_vars

\* -------------------------------------------------------------- the client
\* The arguments of client.procedure(name, input)
ClientNames == {Val("string", "greet"), Val("number", "7")}
ClientInputs == {Val("object", "name=Ada"), Val("number", "0"), Undefined}

\* RpcRequest.verify(requestPayload): null, or what is wrong with the payload
Verify(name) == IF TypeOf(name) = "string" THEN "" ELSE "procedure: string expected"

\* The body handed to fetch: the members procedure and input (JSON.stringify
\* of an undefined input is undefined, and the member is left out).
EncodeRequest(name, input) ==
  <<F1(name.v)>> \o
    (IF JSONStringify(input).defined THEN <<F2(JSONStringify(input).text)>> ELSE <<>>)

\* What a fetch can end with: a response, a network failure, or the abort
\* of its signal.
Response(status, contentType, body) ==
  [kind |-> "response", status |-> status, contentType |-> contentType, body |-> body]
Replies ==
  { Response(200, <<"application/x-protobuf">>, Envelope("Hello, Ada!", "")),
    Response(200, <<"application/x-protobuf">>, Envelope(JsonName, "")),
    Response(200, <<"application/x-protobuf">>, Envelope("", "")),
    Response(200, <<"application/x-protobuf">>, Envelope("", "handler failed")),
    Response(200, <<"application/x-protobuf">>, Body("malformed", "", "", "")),
    Response(200, <<"application/json">>, Body("json", JsonName, "", "")),
    Response(200, <<>>, Body("text", "OK", "", "")),
    Response(400, <<"application/json">>, Body("json", "", "Invalid input", "Invalid name")),
    Response(404, <<"application/x-protobuf">>, Envelope("", "Not Found: Procedure not found")),
    Response(500, <<"application/x-protobuf">>, Envelope("", "handler failed")) }
NetworkError == [NoReply EXCEPT !.kind = "network"]
Aborted == [NoReply EXCEPT !.kind = "abort"]
Causes == Replies \cup {NetworkError, Aborted}

\* response.ok
Ok(status) == status \in 200..299

\* this.hook && this.hook(): the hook is recorded when invoked
RunHook(kind, name, log) ==
  [log |-> IF kind = "none" THEN log ELSE Append(log, name), threw |-> kind = "throws"]
HookError(name) == name \o " threw"

Resolved(val) == [kind |-> "resolved", val |-> val, msg |-> ""]
Rejected(msg) == [kind |-> "rejected", val |-> Undefined, msg |-> msg]
Throw(log, msg) == [log |-> log, out |-> Outcome("throw", Undefined, msg)]

\* try { return JSON.parse(result) } catch { return result }
ParseResult(text) ==
  IF JSONParse(text).threw THEN Val("string", text) ELSE JSONParse(text).val

\* response.json()
ResponseJson(body) ==
  IF body.kind # "json" THEN [threw |-> TRUE, val |-> Undefined]
  ELSE IF body.error # "" THEN [threw |-> FALSE, val |-> Val("object", "error=" \o body.error)]
  ELSE JSONParse(body.result)

\* The message of the error a failed fetch rejects with
FetchFailure(cause) ==
  IF cause.kind = "abort" THEN "This operation was aborted" ELSE "fetch failed"

\* The try block of the protobuf client from the resolved fetch on.
AfterFetchProtobuf(cfg, rp, log) ==
  IF ~Ok(rp.status) THEN Throw(log, "HTTP Error: " \o ToString(rp.status))
  ELSE IF ~Includes(rp.contentType, ProtobufType)
  THEN Throw(log, "Unsupported response format: Expected application/x-protobuf")
  ELSE IF rp.body.kind # "protobuf" THEN Throw(log, "index out of range")
  ELSE IF rp.body.error # "" THEN Throw(log, "RPC Error: " \o rp.body.error)
  ELSE LET h == RunHook(cfg.onSuccess, "onSuccess", log) IN
       IF h.threw THEN Throw(h.log, HookError("onSuccess"))
       ELSE [log |-> h.log, out |-> Outcome("return", ParseResult(rp.body.result), "")]

\* The try block of the text client from the resolved fetch on.
AfterFetchText(cfg, rp, log) ==
  LET h == IF Ok(rp.status) THEN RunHook(cfg.onSuccess, "onSuccess", log)
           ELSE [log |-> log, threw |-> FALSE] IN
  IF h.threw THEN Throw(h.log, HookError("onSuccess"))
  ELSE IF ~Ok(rp.status) THEN Throw(h.log, "HTTP Error: " \o ToString(rp.status))
  ELSE IF ResponseJson(rp.body).threw THEN Throw(h.log, "Unexpected token")
  ELSE [log |-> h.log, out |-> Outcome("return", ResponseJson(rp.body).val, "")]

\* The catch block: onError, then the error is thrown again.
Settlement(cfg, t) ==
  IF t.out.kind = "return" THEN [log |-> t.log, settled |-> Resolved(t.out.val)]
  ELSE LET h == RunHook(cfg.onError, "onError", t.log) IN
       [log |-> h.log,
        settled |-> Rejected(IF h.threw THEN HookError("onError") ELSE t.out.msg)]

\* How the call settles once its fetch ended with `cause`.
FetchSettlement(cfg, cause, log) ==
  Settlement(cfg,
    IF cause.kind # "response" THEN Throw(log, FetchFailure(cause))
    ELSE IF cfg.variant = "protobuf" THEN AfterFetchProtobuf(cfg, cause, log)
    ELSE AfterFetchText(cfg, cause, log))

\* procedure(name, input) up to the fetch: the hook, then the encoding.
BeforeFetch(cfg, name) ==
  LET h == RunHook(cfg.onRequestInitialized, "onRequestInitialized", <<>>) IN
  IF h.threw
  THEN [fetch |-> FALSE, log |-> h.log,
        settled |-> Rejected(HookError("onRequestInitialized"))]
  ELSE IF cfg.variant = "protobuf" /\ Verify(name) # ""
  THEN LET c == Settlement(cfg, Throw(h.log, "Protobuf validation error: " \o Verify(name)))
       IN [fetch |-> FALSE, log |-> c.log, settled |-> c.settled]
  ELSE [fetch |-> TRUE, log |-> h.log, settled |-> Unsettled]

\* client.procedure(name, input) is called.
Procedure ==
  /\ cpc = "idle"
  /\ \E name \in ClientNames, input \in ClientInputs :
       LET b == BeforeFetch(client, name) IN
       /\ hooks' = b.log
       /\ settled' = b.settled
       /\ IF b.fetch
          THEN /\ sent' = [name |-> name, input |-> input, fetched |-> TRUE,
                           body |-> EncodeRequest(name, input)]
               /\ timer' = IF client.variant = "protobuf" /\ Truthy(client.timeout)
                           THEN "armed" ELSE "none"
               /\ cpc' = "fetching"
          ELSE /\ sent' = [name |-> name, input |-> input, fetched |-> FALSE, body |-> <<>>]
               /\ timer' = timer
               /\ cpc' = "settled"
  /\ UNCHANGED <<client, aborted, reply>>
  /\ UNCHANGED serverVars

\* The timer's callback: controller.abort()
TimeoutFiresNoAbort ==
  /\ timer = "armed"
  /\ timer' = "fired"
  /\ UNCHANGED <<client, cpc, sent, aborted, reply, hooks, settled>>
  /\ UNCHANGED serverVars
TimeoutFires ==
  /\ timer = "armed"
  /\ timer' = "fired"
  /\ aborted' = TRUE
  /\ UNCHANGED <<client, cpc, sent, reply, hooks, settled>>
  /\ UNCHANGED serverVars

\* fetch resolves with a response: clearTimeout, then the rest of the try.
FetchResolvesWith(rp) ==
  /\ cpc = "fetching"
  /\ ~aborted
  /\ LET c == FetchSettlement(client, rp, hooks) IN
       /\ reply' = rp
       /\ hooks' = c.log
       /\ settled' = c.settled
  /\ timer' = IF timer = "armed" THEN "cleared" ELSE timer
  /\ cpc' = "settled"
  /\ UNCHANGED <<client, sent, aborted>>
  /\ UNCHANGED serverVars

\* The fetch resolves with some response.
FetchResolves == \E rp \in Replies : FetchResolvesWith(rp)

\* fetch rejects: the network failed, or the signal was aborted.
FetchRejects ==
  /\ cpc = "fetching"
  /\ LET cause == IF aborted THEN Aborted ELSE NetworkError
         c == FetchSettlement(client, cause, hooks) IN
       /\ reply' = cause
       /\ hooks' = c.log
       /\ settled' = c.settled
  /\ cpc' = "settled"
  /\ UNCHANGED <<client, sent, timer, aborted>>
  /\ UNCHANGED serverVars

\* A client is constructed; the server is not part of this specification.
ClientInit ==
  /\ engine = "plain"
  /\ globalMiddleware = <<>>
  /\ globalContext = [k \in {"isAuth"} |-> "true"]
  /\ contextFn = "none"
  /\ appRouter = router([n \in {"greet"} |->
                            [validateInput |-> "none", hasMiddleware |-> TRUE,
                             middleware |-> <<>>, handler |-> "greet"]])
  /\ pc = [r \in Reqs |-> "absent"]
  /\ req = [r \in Reqs |-> NoRequest]
  /\ wire = [r \in Reqs |-> <<>>]
  /\ chunks = [r \in Reqs |-> <<>>]
  /\ steps = [r \in Reqs |-> <<>>]
  /\ res = [r \in Reqs |-> FreshResponse]
  /\ call = [r \in Reqs |-> NoCall]
  /\ rejected = [r \in Reqs |-> ""]
  /\ client \in Clients
  /\ cpc = "idle"
  /\ ClientFresh

ClientNext ==
  \/ Procedure
  \/ TimeoutFires
  \/ FetchResolves
  \/ FetchRejects

ClientSpec == ClientInit /\ [][ClientNext]_vars

\* ------------------------------------------------- client and server
\* One protobuf client without hooks calls the procedure "greet" of one
\* server over a network that delivers the request and the response intact.
\* The handler returns a greeting, nothing, the number 5 or the string "5".
RoundTripProcedures ==
  [validateInput : {"none"},
   hasMiddleware : {TRUE},
   middleware : {<<>>, <<"next">>},
   handler : {"greet", "void", "five", "digits"}]

RoundTripInit ==
  /\ engine \in Engines
  /\ globalMiddleware = <<>>
  /\ globalContext \in GlobalContexts
  /\ contextFn = "none"
  /\ \E p \in RoundTripProcedures : appRouter = router([n \in {"greet"} |-> p])
  /\ pc = [r \in Reqs |-> IF r = 1 THEN "idle" ELSE "absent"]
  /\ req = [r \in Reqs |-> NoRequest]
  /\ wire = [r \in Reqs |-> <<>>]
  /\ chunks = [r \in Reqs |-> <<>>]
  /\ steps = [r \in Reqs |-> <<>>]
  /\ res = [r \in Reqs |-> FreshResponse]
  /\ call = [r \in Reqs |-> NoCall]
  /\ rejected = [r \in Reqs |-> ""]
  /\ client = NoClient
  /\ cpc = "idle"
  /\ ClientFresh

\* The request fetch sent reaches the server: POST, Content-Type
\* application/x-protobuf, the encoded RpcRequest as body.
Transmit ==
  /\ cpc = "fetching"
  /\ ReceiveRequest(1, "POST", ProtobufType, sent.body)

\* The response the server sent, as fetch presents it to the client.
ServerReply(r) ==
  Response(res[r].sent.status,
           IF res[r].sent.contentType = "" THEN <<>> ELSE <<res[r].sent.contentType>>,
           res[r].sent.body)

\* The server has ended the response: the client's fetch resolves with it.
Respond ==
  /\ res[1].ended
  /\ FetchResolvesWith(ServerReply(1))

RoundTripNext ==
  \/ Procedure
  \/ Transmit
  \/ Data(1)
  \/ End(1)
  \/ CallNext(1)
  \/ Return(1)
  \/ Settle(1)
  \/ Respond

RoundTripSpec == RoundTripInit /\ [][RoundTripNext]_vars

\* ------------------------------------------------------------- properties
Arrived(r) == pc[r] \notin {"absent", "idle"}
Reached(r, step) == \E i \in 1..Len(steps[r]) : steps[r][i] = step
Executed(r) == Reached(r, "execute")
ExecuteSettled(r) ==
  Executed(r) /\ (pc[r] = "done" \/ (pc[r] = "return" /\ call[r].stack = <<>>))

IsPrefix(s, t) == Len(s) <= Len(t) /\ s = SubSeq(t, 1, Len(s))
CheckOrder ==
  <<"method", "contentType", "body", "decode", "name", "lookup", "execute">>

IsStage(e) == e.ev \in {"middleware", "handler"}
Stages(r) == SelectSeq(call[r].log, IsStage)
StagePositions(r) == [k \in 1..Len(Stages(r)) |-> Stages(r)[k].i]
\* positions 0..n-1 of the middleware list, then the handler (-1)
FullChain(n) == [k \in 1..(n + 1) |-> IF k <= n THEN k - 1 ELSE -1]
HandlerInvoked(r) == \E k \in 1..Len(Stages(r)) : Stages(r)[k].ev = "handler"
MiddlewareInvoked(r, i) ==
  \E k \in 1..Len(Stages(r)) : Stages(r)[k].ev = "middleware" /\ Stages(r)[k].i = i
HandlerEvent(r) == Stages(r)[Len(Stages(r))]
Count(seq, ev) == Cardinality({k \in 1..Len(seq) : seq[k].ev = ev})
KindsWithin(r, kinds) ==
  \A k \in 1..Len(call[r].procedure.middleware) : call[r].procedure.middleware[k] \in kinds
HasValidator(r) == call[r].procedure.validateInput # "none"
Accepted(r) == ValidatorAccepts(call[r].procedure.validateInput, call[r].raw)

\* What the request's body decodes to, from the bytes the client sent.
SentBody(r) == deserializeProtobuf(req[r].body)
SentName(r) == RpcRequestDecode(req[r].body).procedure

\* Whether a check of the adapter lets request r through.
Passed(r, step) ==
  CASE step = "method" -> req[r].method = "POST"
    [] step = "contentType" -> Includes(req[r].contentType, ProtobufType)
    [] step = "body" -> wire[r] = <<>> /\ Concat(chunks[r]) = req[r].body
    [] step = "decode" -> ~SentBody(r).threw
    [] step = "name" -> TypeOf(SentBody(r).procedure) = "string"
    [] step = "lookup" -> Lookup(appRouter, SentName(r)).found
    [] OTHER -> TRUE

\* C1: a request whose method is not POST is answered 405 by the method check
\* and nothing else happens to it; with a wrong content type as well, the
\* content-type check is never evaluated and no 415 is sent.
C1_MethodRejectedFirst ==
  \A r \in Reqs :
    (Arrived(r) /\ req[r].method # "POST") =>
      /\ pc[r] = "done"
      /\ steps[r] = <<"method">>
      /\ res[r].ended /\ res[r].sent.status = 405
      /\ res[r].sent.body = Body("text", "Method Not Allowed", "", "")
      /\ chunks[r] = <<>> /\ call[r] = NoCall

C1_Witness ==
  \E r \in Reqs :
    /\ req[r].method = "GET"
    /\ ~Includes(req[r].contentType, ProtobufType)
    /\ req[r].body # <<>>
    /\ res[r].sent.status = 405

C3_RejectedInputRunsNoStage ==
  \A r \in Reqs :
    (Executed(r) /\ HasValidator(r) /\ ~Accepted(r)) =>
      /\ Stages(r) = <<>>
      /\ call[r].index = 0 /\ call[r].stack = <<>>
      /\ pc[r] \in {"return", "done"}
      /\ engine = "plain" =>
           call[r].outcome =
             Outcome("throw", Undefined, ValidatorMessage(call[r].procedure.validateInput))
      /\ engine = "typebox" =>
           /\ call[r].outcome = Outcome("return", Undefined, "")
           /\ res[r].sent.status = 400
           /\ res[r].sent.body =
                Body("json", "", "Invalid input",
                     ValidatorMessage(call[r].procedure.validateInput))

C3_Witness ==
  \E r \in Reqs :
    /\ pc[r] = "done"
    /\ Executed(r) /\ HasValidator(r) /\ ~Accepted(r)
    /\ call[r].procedure.middleware # <<>>
    /\ call[r].raw = EmptyObject

C5_Original ==
  \A r \in Reqs :
    (ExecuteSettled(r) /\ (HasValidator(r) => Accepted(r))
       /\ call[r].procedure.hasMiddleware /\ KindsWithin(r, {"next", "wrap"})) =>
      /\ StagePositions(r) = FullChain(Len(call[r].procedure.middleware))
      /\ call[r].procedure.handler # "throw" =>
           call[r].outcome = Outcome("return", HandlerEvent(r).ret, "")

\* C5 amended: when validation passes and every middleware calls next(), each
\* entry is invoked exactly once in registration order, then the handler; the
\* handler's return value is the call's result when every middleware returns
\* what its next() produced. While the call runs, the stages invoked so far
\* are a prefix of that order.
C5_ChainInOrder ==
  \A r \in Reqs :
    (Executed(r) /\ (HasValidator(r) => Accepted(r))
       /\ call[r].procedure.hasMiddleware /\ KindsWithin(r, {"next", "wrap"})) =>
      /\ IsPrefix(StagePositions(r), FullChain(Len(call[r].procedure.middleware)))
      /\ ExecuteSettled(r) =>
           /\ StagePositions(r) = FullChain(Len(call[r].procedure.middleware))
           /\ (call[r].procedure.handler # "throw" /\ KindsWithin(r, {"next"})) =>
                call[r].outcome = Outcome("return", HandlerEvent(r).ret, "")

C5_Witness ==
  \E r \in Reqs :
    /\ pc[r] = "done"
    /\ call[r].procedure.middleware = <<"next", "next">>
    /\ StagePositions(r) = <<0, 1, -1>>
    /\ call[r].outcome = Outcome("return", HandlerEvent(r).ret, "")
    /\ res[r].sent.body.result = HandlerEvent(r).ret.v

\* C6 as stated: once the middleware at position i has returned its own value
\* without calling next(), no middleware after i and not the handler is
\* invoked, and that value is the call's result.
C6_Original ==
  \A r \in Reqs :
    \A i \in 0..(Len(call[r].procedure.middleware) - 1) :
      (call[r].procedure.middleware[i + 1] = "return" /\ MiddlewareInvoked(r, i)) =>
        /\ ~HandlerInvoked(r)
        /\ \A j \in (i + 1)..(Len(call[r].procedure.middleware) - 1) :
             ~MiddlewareInvoked(r, j)
        /\ ExecuteSettled(r) => call[r].outcome = Outcome("return", MiddlewareOwn(i), "")

\* C6 amended: once the middleware at position i has returned its own value
\* without calling next(), no middleware after i and not the handler is
\* invoked; that value is the call's result when every middleware before i
\* returns what its next() produced.
C6_ShortCircuit ==
  \A r \in Reqs :
    \A i \in 0..(Len(call[r].procedure.middleware) - 1) :
      (call[r].procedure.middleware[i + 1] = "return" /\ MiddlewareInvoked(r, i)) =>
        /\ ~HandlerInvoked(r)
        /\ \A j \in (i + 1)..(Len(call[r].procedure.middleware) - 1) :
             ~MiddlewareInvoked(r, j)
        /\ (ExecuteSettled(r)
            /\ \A j \in 0..(i - 1) : call[r].procedure.middleware[j + 1] = "next")
           => call[r].outcome = Outcome("return", MiddlewareOwn(i), "")

C6_Witness ==
  \E r \in Reqs :
    /\ pc[r] = "done"
    /\ call[r].procedure.middleware = <<"next", "return">>
    /\ MiddlewareInvoked(r, 1)
    /\ ~HandlerInvoked(r)
    /\ call[r].outcome = Outcome("return", MiddlewareOwn(1), "")

\* C7: the context handed to a call has every key of the global context and of
\* the per-call mapping the engine derived, a key of the per-call mapping
\* carries the per-call value, and every stage sees that context.
C7_PerCallKeysWin ==
  \A r \in Reqs :
    Count(call[r].log, "merge") > 0 =>
      /\ DOMAIN call[r].context = DOMAIN globalContext \cup DOMAIN call[r].derived
      /\ \A k \in DOMAIN call[r].derived : call[r].context[k] = call[r].derived[k]
      /\ \A k \in DOMAIN globalContext \ DOMAIN call[r].derived :
           call[r].context[k] = globalContext[k]
      /\ \A k \in 1..Len(Stages(r)) : Stages(r)[k].ctx = call[r].context

C7_Witness ==
  \E r \in Reqs :
    /\ HandlerInvoked(r)
    /\ "request" \in DOMAIN globalContext
    /\ "request" \in DOMAIN call[r].derived
    /\ globalContext["request"] # call[r].derived["request"]
    /\ HandlerEvent(r).ctx["request"] = ReqHandle(r)
    /\ HandlerEvent(r).ctx["isAuth"] = "true"

\* C8: when a context function was given to rpc.procedure, every execute calls
\* it exactly once with the call's handles, and the handler sees the global
\* context merged with its result.
C8_ContextFnApplied ==
  \A r \in Reqs :
    (contextFn # "none" /\ HandlerInvoked(r)) =>
      /\ call[r].contextFnCalls = 1
      /\ HandlerEvent(r).ctx = Spread(globalContext, ContextFnResult(contextFn, r))

\* C9: a request naming a procedure that was not registered in the router is
\* answered 404 and never reaches execute (names differing in case and names
\* of inherited members included).
C9_UnregisteredNameIs404 ==
  \A r \in Reqs :
    (pc[r] = "done" /\ Reached(r, "lookup") /\ SentName(r) \notin DOMAIN appRouter) =>
      /\ ~Executed(r)
      /\ res[r].sent.status = 404

\* C10: a decoded envelope whose procedure field is absent or empty is
\* answered 400 at the name check: no lookup, no 404, no dispatch.
C10_MissingNameIs400 ==
  \A r \in Reqs :
    (pc[r] = "done" /\ Reached(r, "name") /\ SentName(r) = "") =>
      /\ ~Reached(r, "lookup")
      /\ ~Executed(r)
      /\ res[r].sent.status = 400

\* ------------------------------------------------- outcomes of a dispatch
\* Request r was dispatched to rpc.execute and its handling is over.
Dispatched(r) == pc[r] = "done" /\ Executed(r)
\* The procedure found is one the deployment registered.
Registered(r) == call[r].procedure.hasMiddleware
ValidationFailed(r) == Executed(r) /\ Registered(r) /\ HasValidator(r) /\ ~Accepted(r)
\* A middleware or the handler threw, and no later middleware replaced it.
StageFailed(r) ==
  /\ call[r].outcome.kind = "throw"
  /\ call[r].outcome.msg \in {"middleware failed", "handler failed"}
ChainReturned(r) == Registered(r) /\ ~ValidationFailed(r) /\ call[r].outcome.kind = "return"
LastStep(r) == steps[r][Len(steps[r])]
ErrorPopulated(r) == res[r].sent.body.error # ""

\* C11 as stated: every dispatched request is answered 200, also when the
\* handler or a middleware fails.
C11_Original ==
  \A r \in Reqs :
    (Dispatched(r) /\ Registered(r) /\ ~ValidationFailed(r)) =>
      res[r].sent.status = 200

\* C11: a dispatched request whose input was accepted is answered 200 with
\* the result field when the chain returns, and 500 with the error populated
\* when the handler or a middleware fails; 405, 415 and 404 are sent only by
\* the method, content-type and lookup checks, and 400 only by the TypeBox
\* engine for a rejected input.
C11_StatusByOutcome ==
  \A r \in Reqs :
    /\ (Dispatched(r) /\ ChainReturned(r)) =>
         /\ res[r].sent.status = 200
         /\ res[r].sent.body = Envelope(ResultText(call[r].outcome.val), "")
    /\ (Dispatched(r) /\ StageFailed(r)) =>
         /\ res[r].sent.status = 500
         /\ ErrorPopulated(r) /\ res[r].sent.body.result = ""
    /\ pc[r] = "done" =>
         /\ res[r].sent.status = 405 => LastStep(r) = "method"
         /\ res[r].sent.status = 415 => LastStep(r) = "contentType"
         /\ res[r].sent.status = 404 => LastStep(r) = "lookup"
         /\ res[r].sent.status = 400 => (engine = "typebox" /\ ValidationFailed(r))

C11_Witness ==
  \E r \in Reqs :
    /\ Dispatched(r) /\ StageFailed(r)
    /\ call[r].procedure.handler = "throw" /\ HandlerInvoked(r)
    /\ engine = "plain"
    /\ res[r].sent.status = 500
    /\ res[r].sent.body = Envelope("", "handler failed")

\* The response carries the message: as the envelope's error field, or as the
\* details field of the TypeBox engine's error body.
CarriesMessage(r, msg) ==
  \/ res[r].sent.body.kind = "protobuf" /\ res[r].sent.body.error = msg
  \/ res[r].sent.body.kind = "json" /\ res[r].sent.body.details = msg

\* C12 as stated: every outcome of execute other than an exception of a
\* middleware or the handler is answered 200.
C12_Original ==
  \A r \in Reqs :
    (Dispatched(r) /\ Registered(r)) =>
      /\ ~StageFailed(r) => res[r].sent.status = 200
      /\ StageFailed(r) =>
           res[r].sent.status = 500 /\ CarriesMessage(r, call[r].outcome.msg)

\* C12: after dispatch to a registered procedure the status is 200 unless the
\* input was rejected or a middleware or the handler threw; such an exception
\* is answered 500 and the response carries the exception's message.
C12_ExceptionIs500 ==
  \A r \in Reqs :
    (Dispatched(r) /\ Registered(r)) =>
      /\ (~StageFailed(r) /\ ~ValidationFailed(r)) => res[r].sent.status = 200
      /\ StageFailed(r) =>
           res[r].sent.status = 500 /\ CarriesMessage(r, call[r].outcome.msg)

C12_Witness ==
  \E r \in Reqs :
    /\ Dispatched(r) /\ StageFailed(r)
    /\ call[r].outcome.msg = "middleware failed"
    /\ MiddlewareInvoked(r, 1) /\ ~HandlerInvoked(r)
    /\ res[r].sent.status = 500
    /\ CarriesMessage(r, "middleware failed")

\* C13: a dispatched call whose input the validator rejects is answered 400
\* with an error field in the body, never 500 and never 200.
C13_RejectedInputIs400 ==
  \A r \in Reqs :
    (Dispatched(r) /\ ValidationFailed(r)) =>
      /\ res[r].sent.status = 400
      /\ ErrorPopulated(r)

\* C14: an exception of a middleware or the handler reaches the caller of
\* execute unmodified and the engine writes no response for it: the response
\* the client receives is the adapter's 500.
C14_EngineWritesNothing ==
  \A r \in Reqs :
    (Dispatched(r) /\ StageFailed(r)) =>
      /\ res[r].endedBy = "adapter"
      /\ res[r].sent.status = 500

\* C15 as stated: after a middleware or the handler threw, the end callback
\* fails with that exception.
C15_Original ==
  \A r \in Reqs :
    (Dispatched(r) /\ StageFailed(r)) => rejected[r] = call[r].outcome.msg

\* C15: after a middleware or the handler threw, the adapter's catch answers
\* 500 and does not re-raise the exception: the end callback completes, or,
\* when the TypeBox engine has already sent its 500, fails with the
\* headers-sent error of its own setHeader call.
C15_NotReRaised ==
  \A r \in Reqs :
    (Dispatched(r) /\ StageFailed(r)) =>
      /\ rejected[r] # call[r].outcome.msg
      /\ res[r].sent.status = 500
      /\ engine = "plain" => (rejected[r] = "" /\ res[r].endedBy = "adapter")
      /\ engine = "typebox" =>
           (rejected[r] = HeadersSentMessage /\ res[r].endedBy = "engine")

C15_Witness ==
  \E r \in Reqs :
    /\ Dispatched(r) /\ StageFailed(r)
    /\ engine = "typebox"
    /\ call[r].outcome.msg = "handler failed"
    /\ rejected[r] = HeadersSentMessage
    /\ res[r].sent.body = Body("json", "", "Internal server error", "handler failed")

\* C16: every response to a POST that passed the content-type check has the
\* content type application/x-protobuf and a binary result envelope as body.
C16_AlwaysBinaryEnvelope ==
  \A r \in Reqs :
    (pc[r] = "done" /\ Reached(r, "body")) =>
      /\ res[r].sent.contentType = "application/x-protobuf"
      /\ res[r].sent.body.kind = "protobuf"

\* The body the client sent cannot be decoded: malformed envelope bytes, or
\* an input string that is not JSON.
Undecodable(r) ==
  LET d == RpcRequestDecode(req[r].body) IN
  d.threw \/ (d.input # "" /\ JSONParse(d.input).threw)

\* C17 as stated: an undecodable body is answered with a 400-class status.
C17_Original ==
  \A r \in Reqs :
    (pc[r] = "done" /\ Reached(r, "decode") /\ Undecodable(r)) =>
      res[r].sent.status \in 400..499

\* C17: an undecodable body ends the request at the decode step: neither name
\* check, lookup nor execute happens, and the failure is reported in the
\* envelope's error field with status 500.
C17_DecodeFailureEndsRequest ==
  \A r \in Reqs :
    (Reached(r, "decode") /\ Undecodable(r)) =>
      /\ pc[r] = "done"
      /\ LastStep(r) = "decode"
      /\ call[r] = NoCall
      /\ res[r].sent.status = 500
      /\ res[r].sent.contentType = "application/x-protobuf"
      /\ res[r].sent.body \in
           { Envelope("", "Protobuf parse error: index out of range"),
             Envelope("", "Protobuf parse error: Unexpected end of JSON input") }

C17_Witness ==
  \E r \in Reqs :
    /\ req[r].body = <<F1("greet"), F2(JsonBroken)>>
    /\ pc[r] = "done"
    /\ LastStep(r) = "decode"
    /\ res[r].sent.body =
         Envelope("", "Protobuf parse error: Unexpected end of JSON input")

\* C18: every result envelope the adapter emits has exactly one of its two
\* fields non-empty: result on the success path, error on a failure path.
C18_ExactlyOneField ==
  \A r \in Reqs :
    (res[r].ended /\ res[r].sent.body.kind = "protobuf") =>
      /\ (res[r].sent.body.result # "") # (res[r].sent.body.error # "")
      /\ (res[r].sent.body.result # "") <=> (res[r].sent.status = 200)

\* -------------------------------------------------- outcomes of a client call
\* The same client without hooks
Unhooked(cfg) ==
  [cfg EXCEPT !.onRequestInitialized = "none", !.onSuccess = "none", !.onError = "none"]

\* What procedure(name, input) settles with when its fetch, if it gets that
\* far, ends with `cause`.
CallResult(cfg, name, cause) ==
  LET b == BeforeFetch(cfg, name) IN
  IF b.fetch THEN FetchSettlement(cfg, cause, b.log).settled ELSE b.settled

Fired(name) == Cardinality({k \in 1..Len(hooks) : hooks[k] = name})

\* C19: what a settled call delivers to its caller is what the same call
\* delivers from a client without hooks, whatever the hooks do.
C19_HooksCannotAlter ==
  cpc = "settled" =>
    \E cause \in (IF reply.kind = "none" THEN Causes ELSE {reply}) :
      settled = CallResult(Unhooked(client), sent.name, cause)

\* The fetch ended in one of the failures: no response (network failure,
\* abort), a non-success status, a response of the wrong format, a body that
\* cannot be decoded, or an envelope with an error.
MeetsFailure ==
  \/ reply.kind \in {"network", "abort"}
  \/ /\ reply.kind = "response"
     /\ \/ ~Ok(reply.status)
        \/ /\ client.variant = "protobuf"
           /\ \/ ~Includes(reply.contentType, ProtobufType)
              \/ reply.body.kind # "protobuf"
              \/ reply.body.error # ""
        \/ client.variant = "text" /\ ResponseJson(reply.body).threw

\* C20: a call that meets such a failure is rejected with that failure and
\* the failure hook, when configured, has fired once for it.
C20_FailureSurfaces ==
  (cpc = "settled" /\ MeetsFailure) =>
    /\ settled = FetchSettlement(Unhooked(client), reply, <<>>).settled
    /\ settled.kind = "rejected"
    /\ client.onError # "none" => Fired("onError") = 1

\* ------------------------------------------------------ the client's timer
TimeoutConfigured == client.variant = "protobuf" /\ Truthy(client.timeout)

Stepped(q) == pc'[q] # pc[q] \/ call'[q] # call[q] \/ chunks'[q] # chunks[q]
CallLocals(c) == <<c.index, c.input, c.context, c.stack>>

\* C22: a step of one call leaves the cursor, the input and the context of
\* every other call as they were, and no step changes the global context or
\* the router.
C22_CallsIsolated ==
  [][ /\ globalContext' = globalContext
      /\ appRouter' = appRouter
      /\ \A q \in Reqs : \A r \in Reqs \ {q} :
           Stepped(q) => /\ CallLocals(call'[r]) = CallLocals(call[r])
                         /\ chunks'[r] = chunks[r] ]_vars

\* Two calls in the middle of their chains at once, each with the value its
\* own middleware stored.
C22_Witness ==
  /\ pc[1] = "next" /\ pc[2] = "next"
  /\ call[1].index = 1 /\ call[2].index = 1
  /\ call[1].context # call[2].context
  /\ "caller" \in DOMAIN call[1].context /\ call[1].context["caller"] = "name=Ada"
  /\ "caller" \in DOMAIN call[2].context /\ call[2].context["caller"] = ""
  /\ "caller" \notin DOMAIN globalContext

\* C23: a response is completed once: after it was ended nobody sets its
\* status or headers or ends it again, so the status last assigned is the one
\* that was sent and no setHeader call fails on an ended response.
C23_CompletedOnce ==
  \A r \in Reqs :
    /\ rejected[r] # HeadersSentMessage
    /\ res[r].ended => res[r].statusCode = res[r].sent.status

\* C24: the input handed to execute is the value JSON.parse recovers from the
\* envelope's input string, whatever that value is.
C24_InputIsParsedValue ==
  \A r \in Reqs :
    (Executed(r) /\ RpcRequestDecode(req[r].body).input # "") =>
      call[r].raw = JSONParse(RpcRequestDecode(req[r].body).input).val

\* ------------------------------------------------------------- round trip
\* The handler of request 1 ran and its value is what execute returned.
HandlerValue == HandlerEvent(1).ret
HandlerReturned ==
  /\ HandlerInvoked(1)
  /\ call[1].outcome = Outcome("return", HandlerValue, "")

\* C25: the result field holds the handler's string, or the JSON text of its
\* non-string value, and the client's call resolves to the handler's value,
\* of the same type.
C25_RoundTrip ==
  (cpc = "settled" /\ pc[1] = "done" /\ HandlerReturned
     /\ TypeOf(HandlerValue) # "undefined") =>
    /\ res[1].sent.body.result =
         (IF TypeOf(HandlerValue) = "string" THEN HandlerValue.v
          ELSE JSONStringify(HandlerValue).text)
    /\ settled = Resolved(HandlerValue)

\* C26: a settled call of a client whose hooks are configured (and return)
\* has fired exactly one of onSuccess and onError, once: onSuccess when it
\* resolved, onError when it failed.
C26_ExactlyOneHook ==
  (/\ cpc = "settled"
   /\ client.onRequestInitialized # "throws"
   /\ client.onSuccess = "returns"
   /\ client.onError = "returns") =>
    /\ Fired("onSuccess") + Fired("onError") = 1
    /\ settled.kind = "resolved" <=> Fired("onSuccess") = 1

\* C27: while the body is still arriving nothing is decoded, checked, looked
\* up or executed and nothing is answered; once the adapter decodes, every
\* chunk has arrived, and what it decodes is the chunks joined in arrival
\* order, which is the body the client sent.
C27_DecodeAfterEnd ==
  \A r \in Reqs :
    /\ pc[r] = "body" =>
         /\ ~Reached(r, "decode") /\ ~Reached(r, "name")
         /\ ~Reached(r, "lookup") /\ ~Executed(r)
         /\ call[r] = NoCall
         /\ ~res[r].ended
         /\ Concat(chunks[r]) \o wire[r] = req[r].body
    /\ Reached(r, "decode") =>
         /\ wire[r] = <<>>
         /\ Concat(chunks[r]) = req[r].body
         /\ deserializeProtobuf(Concat(chunks[r])).threw <=> LastStep(r) = "decode"
         /\ Executed(r) =>
              call[r].raw = InputOrEmpty(deserializeProtobuf(Concat(chunks[r])).input)

C27_Witness ==
  \E r \in Reqs :
    /\ Len(chunks[r]) = 2
    /\ chunks[r][1] = <<F1("greet")>> /\ chunks[r][2] = <<F2(JsonName)>>
    /\ Executed(r) /\ pc[r] = "done"
    /\ call[r].raw = Val("object", "name=Ada")

C29_NoTimerAfterSettle ==
  (cpc = "settled" /\ TimeoutConfigured) => timer # "armed"

====
